---- MODULE Spec2Model ----
(***************************************************************************)
(* cursed: the certificate signing daemon of schatt/curse.                 *)
(*                                                                         *)
(* The model covers the TLS side of the daemon: start-up of the TLS CA     *)
(* (initTLSCerts, genTLSCACert, loadTLSCA, the tail of main), the request  *)
(* handler of /auth/ (tlsCertHandler, validateTLSParams) and the signing   *)
(* of client certificates (signTLSClientCert), over a disk holding the     *)
(* three CA files and a key tracking database holding the serial counter.  *)
(*                                                                         *)
(* dbIncTLSSerial, dbSetTLSSerial, tlsSignCert, tlsCertFP and validIP are  *)
(* called by this code and defined elsewhere; they are modelled as the     *)
(* specification of the daemon describes them.                             *)
(***************************************************************************)
EXTENDS Integers, Sequences, FiniteSets, TLC

\* ------------------------------------------------------------------ bounds
\* Number of process starts explored.
MaxStarts == 2
\* Largest value the serial counter is driven to.
MaxSerial == 2
\* The request handler goroutines running side by side.
Handlers == {1, 2}

\* ------------------------------------------------------- files and memory
\* os.IsNotExist: the content of a file that does not exist.
Absent == 0
\* The zero value of conf.tlsCACert / conf.tlsCAKey, both pointers.
Nil == 0
\* Content of a CA file that was on disk before the first start and holds
\* what its name says (an EC private key, an X.509 certificate, in PEM).  A
\* file written by start number s holds the material generated by that
\* start, s.
PreExisting == MaxStarts + 1
\* Content of a file that is there and holds no PEM block: an empty or
\* truncated file, as a failed or killed ioutil.WriteFile leaves it.
NotPEM == MaxStarts + 2
\* Content of a file that holds a PEM block which x509.ParseECPrivateKey
\* (key) or x509.ParseCertificate (cert) refuses, such as an RSA or PKCS#8
\* key.
NotParsable == MaxStarts + 3

\* The file holds material that loads.
loads(content) == content \in 1..PreExisting

\* big.NewInt(1): the serial of the self-generated CA certificate.
CASerial == 1
\* The serial counter when the certserial bucket holds no value.
NoSerial == 0

VARIABLES
    keyFile,      \* content of the file conf.SSLKey
    certFile,     \* content of the file conf.SSLCert
    caFile,       \* content of the file conf.SSLCA when it is a file of its own
    sslcaIsCert,  \* config: conf.SSLCA names the same path as conf.SSLCert
    requireIP,    \* config: conf.RequireClientIP
    dbSerial,     \* the serial counter of the key tracking database
    proc,         \* "down" or "up": is the process serving requests
    starts,       \* number of process starts so far
    conf,         \* in-memory conf.tlsCAKey, conf.tlsCACert, conf.SSLCA
    lastInit,     \* what the last initTLSCerts saw and returned
    bootstrapped, \* the start whose genTLSCACert returned nil, or 0
    pc,           \* per handler: "idle", "alloc", "sign"
    req,          \* per handler: the request being served
    serial,       \* per handler: the serial dbIncTLSSerial returned
    signed,       \* serials of the client certificates tlsSignCert produced
    resp          \* the response written last

vars == <<keyFile, certFile, caFile, sslcaIsCert, requireIP, dbSerial, proc,
          starts, conf, lastInit, bootstrapped, pc, req, serial, signed, resp>>

diskVars == <<keyFile, certFile, caFile>>
cfgVars == <<sslcaIsCert, requireIP>>
bootVars == <<proc, starts, conf, lastInit, bootstrapped>>

\* ------------------------------------------------------------- user names
\* A user name is a sequence of characters.  An ASCII character is the
\* string made of it; a character outside ASCII is the string naming its
\* code point ("U+212A" is the Kelvin sign, "U+017F" the long s).
LowerHex == {"a", "b", "c", "d", "e", "f"}
LowerRest == {"g", "h", "i", "j", "k", "l", "m", "n", "o", "p", "q", "r", "s",
              "t", "u", "v", "w", "x", "y", "z"}
Digit == {"0", "1", "2", "3", "4", "5", "6", "7", "8", "9"}

\* (?i): a character matches as the lower case letter of its case folding
\* orbit: the upper case letters, and the Kelvin sign (k) and the long s (s).
UpperToLower ==
    [A |-> "a", B |-> "b", C |-> "c", D |-> "d", E |-> "e", F |-> "f", G |-> "g",
     H |-> "h", I |-> "i", J |-> "j", K |-> "k", L |-> "l", M |-> "m", N |-> "n",
     O |-> "o", P |-> "p", Q |-> "q", R |-> "r", S |-> "s", T |-> "t", U |-> "u",
     V |-> "v", W |-> "w", X |-> "x", Y |-> "y", Z |-> "z"]
        @@ ("U+212A" :> "k") @@ ("U+017F" :> "s")
FoldCase(c) == IF c \in DOMAIN UpperToLower THEN UpperToLower[c] ELSE c

\* [a-z_]
IsNameStart(c) == FoldCase(c) \in LowerHex \cup LowerRest \cup {"_"}
\* [a-z0-9_-]
IsNameChar(c) == FoldCase(c) \in LowerHex \cup LowerRest \cup Digit \cup {"_", "-"}
\* [a-f0-9]
IsHexChar(c) == FoldCase(c) \in LowerHex \cup Digit

\* {0,31}: the longest tail of a user name.
MaxNameTail == 31

\* conf.userRegex.MatchString: (?i)^([a-z_][a-z0-9_-]{0,31}|[a-f0-9]+)$
userRegexMatch(u) ==
    /\ Len(u) >= 1
    /\ \/ /\ IsNameStart(u[1])
          /\ Len(u) - 1 <= MaxNameTail
          /\ \A k \in 2..Len(u) : IsNameChar(u[k])
       \/ \A k \in 1..Len(u) : IsHexChar(u[k])

Alice == <<"a", "l", "i", "c", "e">>
Bob == <<"b", "o", "b">>
BobUpper == <<"B", "o", "b">>
BadName == <<"1", "x">>
KelvinName == <<"b", "o", "U+212A">>
NoName == << >>

\* Values of the user header tried.
HeaderUsers == {NoName, Alice, Bob, BobUpper, BadName, KelvinName}
\* Subject.CommonName values of the CSRs tried.
CommonNames == {Alice, Bob}

\* ------------------------------------------------------------ IP literals
\* A userIP form value is the sequence of the numbers between its dots;
\* the empty sequence is the empty string.
GoodIP == <<10, 0, 0, 5>>
BadIP == <<10, 0, 256, 5>>
NoIP == << >>
UserIPs == {GoodIP, BadIP}

\* validIP: a syntactically valid IP literal (IPv4 dotted quad here).
validIP(ip) == Len(ip) = 4 /\ \A k \in 1..4 : ip[k] \in 0..255

\* -------------------------------------------------------------------- CSRs
\* The csr form value.  form is what the text is: "empty" (the empty
\* string), "text" (no PEM block in it), "pem" (a PEM block whose bytes are
\* no certificate request) or "csr" (a PEM block holding a request with
\* Subject.CommonName cn, whose self-signature verifies iff sig).
NoCSR == [form |-> "empty", sig |-> FALSE, cn |-> NoName]
TextCSR == [form |-> "text", sig |-> FALSE, cn |-> NoName]
JunkCSR == [form |-> "pem", sig |-> FALSE, cn |-> NoName]
RealCSRs == [form : {"csr"}, sig : BOOLEAN, cn : CommonNames]
CSRs == {NoCSR, TextCSR, JunkCSR} \cup RealCSRs

\* pem.Decode(p.csr) returns a block.
pemDecodes(csr) == csr.form \in {"pem", "csr"}
\* x509.ParseCertificateRequest(csrBlock.Bytes) returns no error.
csrParses(csr) == csr.form = "csr"
\* Mutant: the error of csr.CheckSignature() ignored.
csrSignatureUnchecked(csr) == TRUE

\* csr.CheckSignature() returns no error.
csrSignatureOK(csr) == csr.sig

\* ---------------------------------------------------------------- requests
\* r.TLS.PeerCertificates: "none" (empty), "broker" (the first certificate
\* has the fingerprint conf.brokerFP) or "other" (another fingerprint).
Peers == {"none", "broker", "other"}

Requests == [peer : Peers, bastionUser : HeaderUsers, csr : CSRs, userIP : UserIPs]

NoRequest == [peer |-> "none", bastionUser |-> NoName, csr |-> NoCSR, userIP |-> NoIP]

\* Mutant: the comparison inverted (== 0 for != 0).
fingerprintDiffersInverted(peer) == peer = "broker"

\* bytes.Compare(conf.brokerFP, fp) != 0, fp the SHA-256 of the peer certificate.
fingerprintDiffers(peer) == peer # "broker"

\* validateTLSParams: the error text, "" for nil.
validateTLSParams(p, requireClientIP) ==
    IF p.bastionUser = NoName THEN "REMOTE_USER missing from request"
    ELSE IF ~userRegexMatch(p.bastionUser) THEN "username is invalid"
    ELSE IF p.csr.form = "empty" THEN "csr missing from request"
    ELSE IF requireClientIP /\ ~validIP(p.userIP) THEN "invalid userIP"
    ELSE ""

\* Mutant: the names compared without regard to case (strings.EqualFold).
commonNameDiffersFold(csr, bastionUser) ==
    [k \in DOMAIN csr.cn |-> FoldCase(csr.cn[k])]
        # [k \in DOMAIN bastionUser |-> FoldCase(bastionUser[k])]

\* csr.Subject.CommonName != p.bastionUser
commonNameDiffers(csr, bastionUser) == csr.cn # bastionUser

\* The certificate of a response that carries none.
NoCert == [serial |-> 0, cn |-> NoName]

Reply(r, status, body) == [req |-> r, status |-> status, body |-> body, cert |-> NoCert]

\* The text of an error of the x509 package, printed with %v.
ErrText == "<x509 error>"

\* Status 0: the handler has not answered and goes on.
Continue(r) == Reply(r, 0, "")

\* tlsCertHandler from its entry to the call of signTLSClientCert: the
\* answer of the first failing check, or Continue.
admission(r, requireClientIP) ==
    IF r.peer = "none" THEN Reply(r, 400, "Invalid connection")
    ELSE IF fingerprintDiffers(r.peer) THEN Reply(r, 401, "Not authorized")
    ELSE IF validateTLSParams(r, requireClientIP) # ""
        THEN Reply(r, 400, "Param validation failure: " \o validateTLSParams(r, requireClientIP))
    ELSE IF ~pemDecodes(r.csr) THEN Reply(r, 400, "Failed to decode CSR: '<nil>'")
    ELSE IF ~csrParses(r.csr) THEN Reply(r, 400, "Failed to parse CSR: " \o ErrText)
    ELSE IF ~csrSignatureOK(r.csr) THEN Reply(r, 400, "Failed to check CSR signature: " \o ErrText)
    ELSE IF commonNameDiffers(r.csr, r.bastionUser)
        THEN Reply(r, 400, "CSR CommonName field does not match logged-in user, denying request")
    ELSE Continue(r)

\* ------------------------------------------------------------- CA start-up
\* The files and the database as one value: key, cert, ca are file
\* contents, db is the serial counter.
Disk(k, c, a, db) == [key |-> k, cert |-> c, ca |-> a, db |-> db]

\* conf before initTLSCerts: no CA loaded, conf.SSLCA as configured.
ZeroConf == [tlsCAKey |-> Nil, tlsCACert |-> Nil, SSLCA |-> "sslca"]

\* What can go wrong during a start: the call that returns an error
\* (or at which the process is killed), "none" for nothing.
\* A failing ioutil.WriteFile leaves no file ("writeKey") or a file without
\* its content ("writeKeyPartial").
FailPoints == {"none", "tlsGenKey", "signCA", "writeKey", "writeKeyPartial",
               "writeCert", "writeCertPartial", "writeCA", "writeCAPartial",
               "dbSetTLSSerial", "listen"}

\* os.Stat(conf.SSLCA): the content of the file conf.SSLCA names.
caContent(d, sameFile) == IF sameFile THEN d.cert ELSE d.ca

\* ioutil.WriteFile(conf.SSLCA, caCert, 0644)
writeCAFile(d, sameFile, s) ==
    IF sameFile THEN [d EXCEPT !.cert = s] ELSE [d EXCEPT !.ca = s]

\* dbSetTLSSerial(conf, serial): the counter is set to serial.
dbSetTLSSerial(d, n) == [d EXCEPT !.db = n]

\* genTLSCACert in start number s: the disk it leaves and whether it
\* returned an error.
genTLSCACert(d, sameFile, s, fail) ==
    IF fail \in {"tlsGenKey", "signCA", "writeKey"} THEN [disk |-> d, err |-> TRUE]
    ELSE IF fail = "writeKeyPartial"
        THEN [disk |-> [d EXCEPT !.key = NotPEM], err |-> TRUE]
    ELSE LET d1 == [d EXCEPT !.key = s] IN
    IF fail = "writeCert" THEN [disk |-> d1, err |-> TRUE]
    ELSE IF fail = "writeCertPartial"
        THEN [disk |-> [d1 EXCEPT !.cert = NotPEM], err |-> TRUE]
    ELSE LET d2 == [d1 EXCEPT !.cert = s] IN
    IF fail = "writeCA" THEN [disk |-> d2, err |-> TRUE]
    ELSE IF fail = "writeCAPartial"
        THEN [disk |-> writeCAFile(d2, sameFile, NotPEM), err |-> TRUE]
    ELSE LET d3 == writeCAFile(d2, sameFile, s) IN
    IF fail = "dbSetTLSSerial" THEN [disk |-> d3, err |-> TRUE]
    ELSE [disk |-> dbSetTLSSerial(d3, CASerial), err |-> FALSE]

\* loadTLSCA: conf after it and whether it returned an error.  The errors
\* are, in order: ioutil.ReadFile, pem.Decode and x509.ParseECPrivateKey of
\* the key file, then ioutil.ReadFile, pem.Decode and x509.ParseCertificate
\* of the cert file; a failed parse assigns nil.
loadTLSCA(d, c) ==
    IF d.key = Absent THEN [conf |-> c, err |-> TRUE]
    ELSE IF d.key = NotPEM THEN [conf |-> c, err |-> TRUE]
    ELSE IF d.key = NotParsable
        THEN [conf |-> [c EXCEPT !.tlsCAKey = Nil], err |-> TRUE]
    ELSE LET c1 == [c EXCEPT !.tlsCAKey = d.key] IN
    IF d.cert = Absent THEN [conf |-> c1, err |-> TRUE]
    ELSE IF d.cert = NotPEM THEN [conf |-> c1, err |-> TRUE]
    ELSE IF d.cert = NotParsable
        THEN [conf |-> [c1 EXCEPT !.tlsCACert = Nil], err |-> TRUE]
    ELSE [conf |-> [c1 EXCEPT !.tlsCACert = d.cert], err |-> FALSE]

\* os.IsNotExist(errK) && os.IsNotExist(errC)
needsBootstrap(errK, errC) == errK /\ errC

\* os.IsNotExist(errK) && !os.IsNotExist(errC)
refusesCAFiles(errK, errC) == errK /\ ~errC

\* initTLSCerts in start number s.
initTLSCerts(d, sameFile, c, s, fail) ==
    LET errK == d.key = Absent
        errC == d.cert = Absent
        gen == IF needsBootstrap(errK, errC)
               THEN genTLSCACert(d, sameFile, s, fail)
               ELSE [disk |-> d, err |-> FALSE]
        out(ok, cf, warn) ==
            [disk |-> gen.disk, conf |-> cf, ok |-> ok, warn |-> warn,
             errK |-> errK, errC |-> errC,
             generated |-> needsBootstrap(errK, errC) /\ ~gen.err]
        load == loadTLSCA(gen.disk, c)
    IN  IF gen.err THEN out(FALSE, c, FALSE)
        ELSE IF refusesCAFiles(errK, errC) THEN out(FALSE, c, FALSE)
        ELSE IF caContent(gen.disk, sameFile) = Absent
            THEN out(TRUE, [c EXCEPT !.SSLCA = "sslcert"], TRUE)
        ELSE IF load.err THEN out(FALSE, load.conf, FALSE)
        ELSE out(TRUE, load.conf, FALSE)

\* server.ListenAndServeTLS(conf.SSLCert, conf.SSLKey) starts serving: the
\* cert file holds a certificate and the key file a key in PEM, which may be
\* a key other than an EC key (and getBrokerFP, getTLSConfig succeeded; a
\* key that does not fit the certificate is the fault "listen").
listens(d, fail) ==
    /\ loads(d.key) \/ d.key = NotParsable
    /\ loads(d.cert)
    /\ fail # "listen"

NoInit == [ran |-> FALSE, errK |-> FALSE, errC |-> FALSE, ok |-> FALSE,
           up |-> FALSE, warn |-> FALSE, generated |-> FALSE, tlsCAKey |-> Nil, tlsCACert |-> Nil]

\* ----------------------------------------------------------------- signing
\* dbIncTLSSerial: one bolt write transaction reads the counter, adds one,
\* writes it back and returns it; a bucket without a value counts from 0.
dbIncTLSSerial(n) == n + 1

\* tlsSignCert for a client certificate: the subject is the CSR's, the
\* serial is opts.Serial.
tlsSignCert(opts) == [serial |-> opts.Serial, cn |-> opts.CSR.cn]

\* Mutant: the serial of the CA certificate used again, as in genTLSCACert.
certSerialOfCA(allocated) == CASerial

\* Mutant: the counter's value before the increment used.
certSerialStale(allocated) == allocated - 1

\* Serial: serial, the value dbIncTLSSerial returned.
certSerial(allocated) == allocated

\* signTLSClientCert after dbIncTLSSerial returned: the certificate options.
certOpts(c, csr, allocated) ==
    [CA |-> c.tlsCACert, CAKey |-> c.tlsCAKey, CSR |-> csr, IsCA |-> FALSE,
     Serial |-> certSerial(allocated)]

\* tlsSignCert cannot sign without a CA certificate and a CA key.
canSign(opts) == opts.CA # Nil /\ opts.CAKey # Nil

\* What the signing stage of one request meets: "ok", an error of
\* tlsSignCert, or an error of x509.ParseCertificate on the new certificate.
SignOutcomes == {"ok", "signError", "parseError"}

\* Mutant: the error of signTLSClientCert written to the client.
signErrorReplyDetailed(r) == Reply(r, 500, "failed to generate client cert: " \o ErrText)

\* The handler's answer when signTLSClientCert returns an error.
signErrorReply(r) == Reply(r, 500, "Server error")

\* The handler's answer when x509.ParseCertificate(rawCert) returns an error.
parseErrorReply(r) == Reply(r, 500, "Error generating certificate")

\* The body of a 200 response: the PEM form of the certificate.
PemBody == "-----BEGIN CERTIFICATE-----"

\* -------------------------------------------------------------------- Init
Init ==
    /\ keyFile \in {Absent, PreExisting, NotPEM, NotParsable}
    /\ certFile \in {Absent, PreExisting, NotPEM, NotParsable}
    /\ sslcaIsCert \in BOOLEAN
    /\ caFile \in IF sslcaIsCert THEN {Absent} ELSE {Absent, PreExisting}
    /\ requireIP \in BOOLEAN
    /\ dbSerial = NoSerial
    /\ proc = "down"
    /\ starts = 0
    /\ conf = ZeroConf
    /\ lastInit = NoInit
    /\ bootstrapped = 0
    /\ pc = [i \in Handlers |-> "idle"]
    /\ req = [i \in Handlers |-> NoRequest]
    /\ serial = [i \in Handlers |-> NoSerial]
    /\ signed = << >>
    /\ resp = Reply(NoRequest, 0, "")

\* ----------------------------------------------------------------- actions
\* main from initTLSCerts on: one start of the process.
Start(fail) ==
    /\ proc = "down"
    /\ starts < MaxStarts
    /\ LET s == starts + 1
           r == initTLSCerts(Disk(keyFile, certFile, caFile, dbSerial),
                             sslcaIsCert, ZeroConf, s, fail)
           up == r.ok /\ listens(r.disk, fail)
       IN  /\ starts' = s
           /\ keyFile' = r.disk.key
           /\ certFile' = r.disk.cert
           /\ caFile' = r.disk.ca
           /\ dbSerial' = r.disk.db
           /\ lastInit' = [ran |-> TRUE, errK |-> r.errK, errC |-> r.errC,
                           ok |-> r.ok, up |-> up, warn |-> r.warn, generated |-> r.generated,
                           tlsCAKey |-> r.conf.tlsCAKey, tlsCACert |-> r.conf.tlsCACert]
           /\ bootstrapped' = IF r.generated THEN s ELSE bootstrapped
           /\ proc' = IF up THEN "up" ELSE "down"
           /\ conf' = IF up THEN r.conf ELSE ZeroConf
    /\ UNCHANGED <<cfgVars, pc, req, serial, signed, resp>>

\* The process ends (shutdown or kill): memory and requests in flight are lost.
Stop ==
    /\ proc = "up"
    /\ proc' = "down"
    /\ conf' = ZeroConf
    /\ pc' = [i \in Handlers |-> "idle"]
    /\ req' = [i \in Handlers |-> NoRequest]
    /\ serial' = [i \in Handlers |-> NoSerial]
    /\ UNCHANGED <<diskVars, cfgVars, dbSerial, starts, lastInit, bootstrapped,
                   signed, resp>>

\* tlsCertHandler up to the call of signTLSClientCert: answer the first
\* failing check, or go on to sign.
Receive(i, r) ==
    /\ proc = "up"
    /\ pc[i] = "idle"
    /\ LET out == admission(r, requireIP)
       IN  IF out.status = 0
           THEN /\ pc' = [pc EXCEPT ![i] = "alloc"]
                /\ req' = [req EXCEPT ![i] = r]
                /\ UNCHANGED resp
           ELSE /\ resp' = out
                /\ UNCHANGED <<pc, req>>
    /\ UNCHANGED <<diskVars, cfgVars, dbSerial, bootVars, serial, signed>>

\* signTLSClientCert: dbIncTLSSerial returns the next serial.
AllocSerial(i) ==
    /\ proc = "up"
    /\ pc[i] = "alloc"
    /\ dbSerial < MaxSerial
    /\ dbSerial' = dbIncTLSSerial(dbSerial)
    /\ serial' = [serial EXCEPT ![i] = dbSerial']
    /\ pc' = [pc EXCEPT ![i] = "sign"]
    /\ UNCHANGED <<diskVars, cfgVars, bootVars, req, signed, resp>>

\* signTLSClientCert: dbIncTLSSerial returns an error; the handler answers.
AllocFails(i) ==
    /\ proc = "up"
    /\ pc[i] = "alloc"
    /\ resp' = signErrorReply(req[i])
    /\ pc' = [pc EXCEPT ![i] = "idle"]
    /\ req' = [req EXCEPT ![i] = NoRequest]
    /\ UNCHANGED <<diskVars, cfgVars, dbSerial, bootVars, serial, signed>>

\* signTLSClientCert from tlsSignCert on, and the rest of tlsCertHandler.
Sign(i, outcome) ==
    /\ proc = "up"
    /\ pc[i] = "sign"
    /\ LET opts == certOpts(conf, req[i].csr, serial[i])
           cert == tlsSignCert(opts)
       IN  IF ~canSign(opts) \/ outcome = "signError"
           THEN /\ resp' = signErrorReply(req[i])
                /\ UNCHANGED signed
           ELSE IF outcome = "parseError"
           THEN /\ resp' = parseErrorReply(req[i])
                /\ signed' = Append(signed, cert.serial)
           ELSE /\ resp' = [req |-> req[i], status |-> 200, body |-> PemBody,
                            cert |-> cert]
                /\ signed' = Append(signed, cert.serial)
    /\ pc' = [pc EXCEPT ![i] = "idle"]
    /\ req' = [req EXCEPT ![i] = NoRequest]
    /\ serial' = [serial EXCEPT ![i] = NoSerial]
    /\ UNCHANGED <<diskVars, cfgVars, dbSerial, bootVars>>

\* The steps of the daemon with start-up faults drawn from F, handlers from
\* H and requests from R.
NextOf(F, H, R) ==
    \/ \E fail \in F : Start(fail)
    \/ Stop
    \/ \E i \in H, r \in R : Receive(i, r)
    \/ \E i \in H : AllocSerial(i)
    \/ \E i \in H : AllocFails(i)
    \/ \E i \in H, outcome \in SignOutcomes : Sign(i, outcome)

\* Requests that reach the identity check or fail broker authentication.
SigningRequests ==
    {r \in Requests : /\ r.userIP = GoodIP
                      /\ r.bastionUser \in CommonNames
                      /\ r.csr.form = "csr" /\ r.csr.sig}

\* The whole life of the daemon: every start-up fault, all handlers, the
\* requests that exercise signing.
Next == NextOf(FailPoints, Handlers, SigningRequests)

Spec == Init /\ [][Next]_vars

\* Admission: every request, one handler, starts that meet no fault, an
\* operator-supplied CA key and certificate under the default SSLCA.
InitAdmission ==
    Init /\ sslcaIsCert /\ keyFile = PreExisting /\ certFile = PreExisting

NextAdmission == NextOf({"none"}, {1}, Requests)

SpecAdmission == InitAdmission /\ [][NextAdmission]_vars

\* ------------------------------------------------------------ vocabulary
\* The admission checks in the order the specification lists them, each
\* read off the request as sent: 1 user name missing, 2 user name
\* ill-formed, 3 csr missing, 4 userIP invalid while required, 5 no PEM
\* block, 6 no certificate request, 7 self-signature wrong, 8 CommonName
\* differs from the user name.
Checks == 1..8

CheckFails(k, r) ==
    CASE k = 1 -> r.bastionUser = NoName
      [] k = 2 -> ~userRegexMatch(r.bastionUser)
      [] k = 3 -> r.csr.form = "empty"
      [] k = 4 -> requireIP /\ ~validIP(r.userIP)
      [] k = 5 -> r.csr.form \notin {"pem", "csr"}
      [] k = 6 -> r.csr.form # "csr"
      [] k = 7 -> ~r.csr.sig
      [] k = 8 -> r.csr.cn # r.bastionUser

CheckBody(k) ==
    CASE k = 1 -> "Param validation failure: REMOTE_USER missing from request"
      [] k = 2 -> "Param validation failure: username is invalid"
      [] k = 3 -> "Param validation failure: csr missing from request"
      [] k = 4 -> "Param validation failure: invalid userIP"
      [] k = 5 -> "Failed to decode CSR: '<nil>'"
      [] k = 6 -> "Failed to parse CSR: <x509 error>"
      [] k = 7 -> "Failed to check CSR signature: <x509 error>"
      [] k = 8 -> "CSR CommonName field does not match logged-in user, denying request"

\* k is the first check the request fails.
FirstFailure(k, r) == CheckFails(k, r) /\ \A j \in 1..(k - 1) : ~CheckFails(j, r)

\* The request comes from the broker and fails no check.
Admissible(r) == r.peer = "broker" /\ \A k \in Checks : ~CheckFails(k, r)

\* A response has been written.
Answered == resp.status # 0

\* This step writes a response.
Answers == resp' # resp

\* This step ends handler i's request in the signing stage with a response.
EndsSigning(i) == pc[i] \in {"alloc", "sign"} /\ pc'[i] = "idle" /\ proc' = "up"

SignedSerials == {signed[k] : k \in DOMAIN signed}

\* ------------------------------------------------------------------ claims

\* C1: under every interleaving of concurrently handled TLS requests, no
\* two client certificates carry the same serial number: the serials of the
\* certificates signed so far are pairwise different, and so are the
\* serials held by requests that are between allocation and signing.
C1_SerialsDistinct ==
    /\ \A a, b \in DOMAIN signed : a # b => signed[a] # signed[b]
    /\ \A i, j \in Handlers :
          (i # j /\ pc[i] = "sign" /\ pc[j] = "sign") => serial[i] # serial[j]

\* Handler 1 took serial 1 and has not signed yet, while another request
\* took serial 2 after it and its certificate is already signed.
C1_Witness == pc[1] = "sign" /\ serial[1] = 1 /\ signed = <<2>>

\* The answer to a request that is not the broker's: 401 "Not authorized"
\* for another fingerprint, 400 for no peer certificate, no certificate.
C2_Answer ==
    Answered =>
        /\ resp.req.peer = "other" =>
              resp.status = 401 /\ resp.body = "Not authorized" /\ resp.cert = NoCert
        /\ resp.req.peer = "none" => resp.status = 400 /\ resp.cert = NoCert

\* The step that answers a request that is not the broker's changes nothing
\* but the response.
C2_Step ==
    (Answers /\ resp'.req.peer # "broker") =>
        UNCHANGED <<dbSerial, signed, pc, req, serial>>

\* C2: a request whose peer certificate has another fingerprint than the
\* broker's is answered 401 "Not authorized", a request without peer
\* certificate is answered 400; the answer carries no certificate, and the
\* step that gives it leaves the serial counter, the signed certificates
\* and every handler where they were.
C2_BrokerOnly == []C2_Answer /\ [][C2_Step]_vars

\* A request that is fine but for its peer certificate was answered 401
\* after a certificate had been issued; the counter stands at 1.
C2_Witness ==
    /\ resp.status = 401
    /\ resp.req.peer = "other"
    /\ resp.req.bastionUser = Alice
    /\ resp.req.csr = [form |-> "csr", sig |-> TRUE, cn |-> Alice]
    /\ resp.req.userIP = GoodIP
    /\ dbSerial = 1
    /\ signed = <<1>>

\* C3: every certificate returned with status 200 has the Subject
\* CommonName equal to the bastionUser of its request, and no request whose
\* CSR CommonName differs from its bastionUser is in signTLSClientCert.
C3_CommonNameBound ==
    /\ (Answered /\ resp.status = 200) =>
          /\ resp.cert # NoCert
          /\ resp.cert.cn = resp.req.bastionUser
    /\ \A i \in Handlers :
          pc[i] \in {"alloc", "sign"} => req[i].csr.cn = req[i].bastionUser

\* A certificate for bob was returned to a request of user bob.
C3_Witness ==
    resp.status = 200 /\ resp.req.bastionUser = Bob /\ resp.cert.cn = Bob

\* The answer to a broker's request that fails a check: 400 with the
\* message of the first check it fails, no certificate.
C4_Answer ==
    (Answered /\ resp.req.peer = "broker") =>
        \A k \in Checks :
            FirstFailure(k, resp.req) =>
                /\ resp.status = 400
                /\ resp.body = CheckBody(k)
                /\ resp.cert = NoCert

\* The step that answers 400 signs nothing and leaves the counter alone.
C4_Step == (Answers /\ resp'.status = 400) => UNCHANGED <<dbSerial, signed>>

\* C4: a request from the broker that fails an admission check is answered
\* 400 with the message of the first check it fails, whatever the later
\* checks would say; it gets no certificate, and the step that answers 400
\* leaves the serial counter and the signed certificates unchanged.
C4_FirstFailure == []C4_Answer /\ [][C4_Step]_vars

\* A CSR with a wrong self-signature and a CommonName that is not the
\* user's was answered with the signature message, after a certificate had
\* been issued.
C4_Witness ==
    /\ resp.status = 400
    /\ resp.body = CheckBody(7)
    /\ resp.req.csr.cn # resp.req.bastionUser
    /\ dbSerial = 1
    /\ signed = <<1>>

\* C5 as stated: every request that passes broker authentication and every
\* admission check is answered 200.
C5_AlwaysIssued == (Answered /\ Admissible(resp.req)) => resp.status = 200

\* An admissible request is answered 200 or 500 and only an admissible one
\* is answered 200; every serial handed out is at most the counter.
C5_Answer ==
    /\ (Answered /\ Admissible(resp.req)) => resp.status \in {200, 500}
    /\ (Answered /\ resp.status = 200) => Admissible(resp.req)
    /\ \A i \in Handlers : pc[i] = "sign" => serial[i] \in 1..dbSerial
    /\ SignedSerials \subseteq 1..dbSerial

\* An allocation adds 1 to the counter and hands out the new value; a 200
\* carries the serial its request was handed; serving never lowers the
\* counter.
C5_Step ==
    /\ \A i \in Handlers :
          (pc[i] = "alloc" /\ pc'[i] = "sign") =>
              dbSerial' = dbSerial + 1 /\ serial'[i] = dbSerial + 1
    /\ \A i \in Handlers :
          (EndsSigning(i) /\ pc[i] = "sign" /\ resp'.status = 200) =>
              resp'.cert.serial = serial[i] /\ dbSerial' = dbSerial
    /\ (proc = "up" /\ proc' = "up") => dbSerial' >= dbSerial

\* C5 amended: a request that passes broker authentication and every
\* admission check is answered 200 or, when its signing stage fails, 500;
\* its allocation advances the counter by exactly 1 and gives it the
\* previous value plus 1, which is the serial of the certificate a 200
\* carries; while serving the counter never decreases, and every serial
\* handed out is at most the counter, so that none is handed out again.
C5_SerialAdvances == []C5_Answer /\ [][C5_Step]_vars

\* The second request of a daemon with an operator-supplied CA got the
\* certificate with serial 2.
C5_Witness ==
    /\ resp.status = 200
    /\ resp.cert.serial = 2
    /\ dbSerial = 2
    /\ signed = <<1, 2>>

\* C6: when exactly one of the CA key file and the CA cert file exists,
\* initTLSCerts returns ok = false and that start does not come to serve.
C6_AsymmetricRefused ==
    (lastInit.ran /\ lastInit.errK # lastInit.errC) =>
        ~lastInit.ok /\ ~lastInit.up

\* What one start does about the bootstrap.  A start that fails before it
\* has written anything leaves the bootstrap to the next start.
C7_Step ==
    (starts' = starts + 1) =>
        /\ lastInit'.generated =>
              /\ bootstrapped = 0
              /\ keyFile = Absent /\ certFile = Absent
        /\ ( /\ keyFile = Absent /\ certFile = Absent
             /\ <<keyFile', certFile', caFile'>> # <<keyFile, certFile, caFile>> ) =>
              /\ lastInit'.generated
              /\ keyFile' = starts' /\ certFile' = starts'
              /\ dbSerial' = CASerial
        /\ bootstrapped # 0 =>
              /\ ~lastInit'.generated
              /\ UNCHANGED <<keyFile, certFile, caFile, dbSerial>>
              /\ lastInit'.ok
              /\ lastInit'.tlsCAKey = bootstrapped
              /\ lastInit'.tlsCACert = bootstrapped

\* C7: the CA bootstrap runs at most once: only a start that finds neither
\* file generates a CA, and none has generated one before; a start that
\* finds neither file and writes to the CA files has generated the CA,
\* written the key file and the cert file and set the serial counter to 1;
\* every start after the bootstrap leaves files and counter alone and
\* loads the material the bootstrap wrote.
C7_BootstrapOnce == [][C7_Step]_vars

\* C8 as stated: a request that passed every admission check and is not
\* answered 200 is answered 500 with the body "Server error" and gets no
\* certificate.
C8_ServerError ==
    (Answered /\ Admissible(resp.req) /\ resp.status # 200) =>
        resp.status = 500 /\ resp.body = "Server error" /\ resp.cert = NoCert

\* The step that ends a request in the signing stage without a 200.
C8_Step ==
    \A i \in Handlers :
        (EndsSigning(i) /\ resp'.status # 200) =>
            /\ resp'.status = 500
            /\ resp'.cert = NoCert
            /\ resp'.req = req[i]
            /\ resp'.body = IF signed' # signed
                            THEN "Error generating certificate"
                            ELSE "Server error"

\* C8 amended: a failure in the signing stage is answered 500 without a
\* certificate; the body is "Server error" when the serial allocation or
\* the signing failed (no certificate was made) and "Error generating
\* certificate" when the certificate made could not be parsed again.
C8_GenericFailure == [][C8_Step]_vars

\* A certificate was signed, could not be parsed, and the request was
\* answered 500 "Error generating certificate".
C8_Witness ==
    /\ resp.status = 500
    /\ resp.body = "Error generating certificate"
    /\ signed = <<1>>

\* C9: whenever initTLSCerts returns ok = true, the CA certificate and the
\* CA key are loaded, and a serving process has both.
C9_LoadedWhenOk ==
    /\ (lastInit.ran /\ lastInit.ok) =>
          lastInit.tlsCAKey # Nil /\ lastInit.tlsCACert # Nil
    /\ proc = "up" => conf.tlsCAKey # Nil /\ conf.tlsCACert # Nil

\* C10: when the CA key on disk was generated by the daemon itself, no
\* client certificate carries the CA certificate's serial 1.
C10_NoClientSerialOne ==
    keyFile \in 1..MaxStarts => CASerial \notin SignedSerials
====
